---- MODULE Spec2Model ----
(***************************************************************************)
(* Crawler2: the host side of the ESC bootloader configuration protocol.   *)
(*                                                                         *)
(* The repository holds several generations of the same driver script.     *)
(* The model carries the three that move a settings image over the link:   *)
(*   "v2"  src/script.js:148-443      PROTOCOL V2 (echo aware, chunked)     *)
(*   "p0"  src/unnamed/part_000       EXPLICIT ADDRESSING (chunked)         *)
(*   "p1"  src/unnamed/part_001       FINAL STABLE (one 176-byte transfer)  *)
(* The variable `variant` says which script is loaded in the page.         *)
(*                                                                         *)
(* JavaScript runs one continuation at a time: an action of the model is   *)
(* the code between two awaits.  Date.now() - start < budget is kept as    *)
(* the flag `late` of the call (the budget has elapsed).                   *)
(***************************************************************************)
EXTENDS Integers, Sequences, FiniteSets, TLC

(***************************************************************************)
(* Bounds of the model.                                                    *)
(***************************************************************************)
\* async handler invocations that may be alive at once
MaxTasks == 2
\* clicks on btn-connect and btn-save in one run
MaxClicks == 4
\* clicks in a run in which a click lands while a handler is still running,
\* or in which the link departs from the expected exchange
ShortRun == 2
\* clicks that land while a handler is still running
MaxRush == 1
\* departures of the link from the expected exchange in one run: a response
\* outside the dialect the script expects, or a response of which only a
\* part has arrived when the wait budget of its call elapses
MaxAnomalies == 1
\* read() results one response may be split into by the transport
MaxChunks == 2
\* bytes a truncated response lacks at its end
ShortBy == 4

(***************************************************************************)
(* Program constants.                                                      *)
(***************************************************************************)
chunkSize == 32
totalSize == 176
BaseAddr == 8192
ACK == 48
NACK1 == 193
NACK2 == 194
MinStored == 100
MinResponseP1 == 170
ReadDoneP1 == 178
crcPoly == 40961

Variants == {"v2", "p0", "p1"}

\* const CMD = { Init, ReadEE, WriteEE, SetAddr } of each script
CMD(v) ==
    IF v = "v2"
    THEN [Init |-> 253, ReadEE |-> 3, WriteEE |-> 1, SetAddr |-> 255]
    ELSE [Init |-> 48, ReadEE |-> 4, WriteEE |-> 5, SetAddr |-> 255]

\* const OFFSET = { ... } (the entries the scripts read or write)
OFFSET ==
    [DIR |-> 17, COMP_PWM |-> 20, VAR_PWM |-> 21, STUCK |-> 22, TIMING |-> 23,
     START_POWER |-> 25, KV |-> 26, POLES |-> 27, BRAKE_STOP |-> 28,
     STALL |-> 29, BEEP |-> 30, SINE_RANGE |-> 40, BRAKE_STR |-> 41]

\* presets / mock record of src/script.js:571-575 and the values a user types
DefaultUi ==
    [power |-> 5, range |-> 25, stopPower |-> 2, timing |-> 15, beep |-> 40,
     kv |-> 2000, poles |-> 14, brakeOnStop |-> TRUE, reverse |-> FALSE,
     compPwm |-> TRUE, varPwm |-> FALSE, stall |-> TRUE, stuck |-> TRUE]

UserRecords ==
    { [power |-> 0, range |-> 10, stopPower |-> 7, timing |-> 20, beep |-> 80,
       kv |-> 1020, poles |-> 12, brakeOnStop |-> FALSE, reverse |-> TRUE,
       compPwm |-> FALSE, varPwm |-> TRUE, stall |-> FALSE, stuck |-> FALSE] }

\* JavaScript null.  Every array the scripts test with `!x` or `x ? :` is
\* either null or non-empty, so the empty sequence stands for null.
null == <<>>

(***************************************************************************)
(* Numbers.  A JavaScript number held in an image is an integer n >= 0,    *)
(* written n, or a non-integer m/40 (m > 0, 40 does not divide m), the     *)
(* only non-integers handleSave can produce, written -m.                   *)
(***************************************************************************)
Min(a, b) == IF a < b THEN a ELSE b

IsInteger(x) == x >= 0

\* new Uint8Array([... x ...]): truncate towards zero, then modulo 256
ToUint8(x) == IF x >= 0 THEN x % 256 ELSE ((-x) \div 40) % 256

\* x * 40 for a number x
Times40(x) == IF x >= 0 THEN 40 * x ELSE -x

RECURSIVE XorBits(_, _)
\* a ^ b bit by bit
XorBits(a, b) ==
    IF a = 0 THEN b
    ELSE IF b = 0 THEN a
    ELSE (((a % 2) + (b % 2)) % 2) + 2 * XorBits(a \div 2, b \div 2)

\* a ^ b on bytes, tabulated once
XorTable == [a \in 0..255 |-> [b \in 0..255 |-> XorBits(a, b)]]

\* a ^ b on 16-bit values
Xor(a, b) ==
    256 * XorTable[a \div 256][b \div 256] + XorTable[a % 256][b % 256]

RECURSIVE crcBitsMsbFirst(_, _, _)
\* the inner loop of crc16 taking the bits of the byte from bit 7 down
crcBitsMsbFirst(xb, crc, n) ==
    IF n = 0 THEN crc
    ELSE crcBitsMsbFirst((2 * xb) % 256,
                         IF ((xb \div 128) % 2) # (crc % 2)
                         THEN Xor(crc \div 2, crcPoly)
                         ELSE crc \div 2,
                         n - 1)

RECURSIVE crcBits(_, _, _)
\* the inner loop of crc16: j = 8 - n, xb and crc as the loop holds them
crcBits(xb, crc, n) ==
    IF n = 0 THEN crc
    ELSE crcBits(xb \div 2,
                 IF (xb % 2) # (crc % 2)
                 THEN Xor(crc \div 2, crcPoly)
                 ELSE crc \div 2,
                 n - 1)

RECURSIVE crcRange(_, _, _, _)
\* the outer loop of crc16 over data[lo..hi] (1-based), entered with
\* checksum crc: the bytes of the first half in order, then those of the
\* second half.  The loop is cut in halves, and crc is evaluated on entry,
\* only to keep TLC's evaluation stack shallow on a 176-byte packet.
crcRange(data, lo, hi, crc) ==
    IF crc < 0 \/ lo > hi THEN crc
    ELSE IF lo = hi THEN crcBits(data[lo], crc, 8)
    ELSE crcRange(data, ((lo + hi) \div 2) + 1, hi,
                  crcRange(data, lo, (lo + hi) \div 2, crc))

\* function crc16(data): LSB-first, polynomial 0xA001, initial value 0
crc16(data) == crcRange(data, 1, Len(data), 0) % 65536

\* array.slice(a, b), 0-based, end exclusive, clipped to the array
Slice(s, a, b) == SubSeq(s, a + 1, Min(b, Len(s)))

\* array.includes(x)
Includes(s, x) == \E k \in 1..Len(s) : s[k] = x

\* sendPacket: packet = new Uint8Array([cmd, ...params, crc & 0xFF, crc >> 8])
MakePacket(cmd, params) ==
    LET payload == [k \in 1..(Len(params) + 1) |->
                        IF k = 1 THEN ToUint8(cmd) ELSE ToUint8(params[k - 1])]
        crc == crc16(payload)
    IN  payload \o <<crc % 256, (crc \div 256) % 256>>

(***************************************************************************)
(* The second protocol of script.js (preamble 0x2F, big-endian address and  *)
(* checksum): its crc16 and the packet sendCommand writes.                  *)
(***************************************************************************)
xmodemPoly == 4129

\* A 32-bit integer is held as its two 16-bit halves <<high, low>>.
Word(hi, lo) == <<hi, lo>>

\* a << 1 on a 32-bit integer: the bit shifted out of bit 31 is lost
Shl1(a) == Word((2 * a[1] + (a[2] \div 32768)) % 65536, (2 * a[2]) % 65536)

\* a ^ b on 32-bit integers
Xor32(a, b) == Word(Xor(a[1], b[1]), Xor(a[2], b[2]))

RECURSIVE xmBitsAnyHighBit(_, _)
\* the inner loop with `crc & 0x8000` taken as set when any bit from bit 15
\* up is set
xmBitsAnyHighBit(crc, n) ==
    IF n = 0 THEN crc
    ELSE xmBitsAnyHighBit(IF crc[1] > 0 \/ crc[2] >= 32768
                          THEN Xor32(Shl1(crc), Word(0, xmodemPoly))
                          ELSE Shl1(crc),
                          n - 1)

RECURSIVE xmBits(_, _)
\* the inner loop of the second crc16: j = 8 - n; crc is never masked here,
\* so it is a 32-bit integer whose bits above bit 15 fill up
xmBits(crc, n) ==
    IF n = 0 THEN crc
    ELSE xmBits(IF crc[2] \div 32768 = 1
                THEN Xor32(Shl1(crc), Word(0, xmodemPoly))
                ELSE Shl1(crc),
                n - 1)

RECURSIVE xmBytes(_, _, _, _)
\* the outer loop of the second crc16 over data[lo..hi] (1-based), entered
\* with checksum crc: per byte crc ^= data[i] << 8, then the eight shifts.
\* As in crcRange, the loop is cut in halves and crc is evaluated on entry.
xmBytes(data, lo, hi, crc) ==
    IF crc[2] < 0 \/ lo > hi THEN crc
    ELSE IF lo = hi THEN xmBits(Xor32(crc, Word(0, data[lo] * 256)), 8)
    ELSE xmBytes(data, ((lo + hi) \div 2) + 1, hi,
                 xmBytes(data, lo, (lo + hi) \div 2, crc))

\* function crc16(data) of the second protocol: return crc & 0xFFFF
crc16Xmodem(data) == xmBytes(data, 1, Len(data), Word(0, 0))[2]

\* new Uint8Array(array)
Uint8Array(a) == [k \in 1..Len(a) |-> ToUint8(a[k])]

\* sendCommand with the checksum bytes in sendPacket's order, low byte first
MakeCommandLowFirst(cmd, params, addr) ==
    LET payload == <<47, cmd, (addr \div 256) % 256, addr % 256, Len(params)>>
                       \o params
        crc == crc16Xmodem(Uint8Array(Slice(payload, 1, Len(payload))))
    IN  Uint8Array(payload \o <<crc % 256, (crc \div 256) % 256>>)

\* sendCommand: header = [0x2F, cmd, (addr >> 8) & 0xFF, addr & 0xFF,
\* params.length], crc over payload.slice(1),
\* packet = new Uint8Array([...payload, (crc >> 8) & 0xFF, crc & 0xFF])
MakeCommand(cmd, params, addr) ==
    LET payload == <<47, cmd, (addr \div 256) % 256, addr % 256, Len(params)>>
                       \o params
        crc == crc16Xmodem(Uint8Array(Slice(payload, 1, Len(payload))))
    IN  Uint8Array(payload \o <<(crc \div 256) % 256, crc % 256>>)

(***************************************************************************)
(* Settings codec.                                                         *)
(***************************************************************************)
\* data[off]; undefined (off beyond the array) is kept as 0: both are falsy
\* under `||` and both differ from 1 under `===`
At(data, off) == IF off < Len(data) THEN data[off + 1] ELSE 0

\* x || d
JsOr(x, d) == IF x = 0 THEN d ELSE x

\* arr[off] = v with off taken as a position counted from 1
SetAtOneBased(arr, off, v) ==
    IF off + 1 < Len(arr) THEN [arr EXCEPT ![off + 2] = v] ELSE arr

\* arr[off] = v; an assignment beyond the end extends the array, and the
\* holes it leaves read as undefined (kept as 0, as in At)
SetAt(arr, off, v) ==
    IF off < Len(arr) THEN [arr EXCEPT ![off + 1] = v]
    ELSE [k \in 1..(off + 1) |->
             IF k <= Len(arr) THEN arr[k] ELSE IF k = off + 1 THEN v ELSE 0]

\* parseSettings with the checkboxes set from the truth value of the byte
\* (checked = !!data[offset]) instead of the comparison with 1
parseSettingsTruthy(data) ==
    [power       |-> JsOr(At(data, OFFSET.START_POWER), 5),
     range       |-> JsOr(At(data, OFFSET.SINE_RANGE), 25),
     stopPower   |-> JsOr(At(data, OFFSET.BRAKE_STR), 2),
     timing      |-> JsOr(At(data, OFFSET.TIMING), 15),
     beep        |-> JsOr(At(data, OFFSET.BEEP), 40),
     kv          |-> Times40(JsOr(At(data, OFFSET.KV), 50)) + 20,
     poles       |-> JsOr(At(data, OFFSET.POLES), 14),
     brakeOnStop |-> At(data, OFFSET.BRAKE_STOP) # 0,
     reverse     |-> At(data, OFFSET.DIR) # 0,
     compPwm     |-> At(data, OFFSET.COMP_PWM) # 0,
     varPwm      |-> At(data, OFFSET.VAR_PWM) # 0,
     stall       |-> At(data, OFFSET.STALL) # 0,
     stuck       |-> At(data, OFFSET.STUCK) # 0]

\* function parseSettings(data): the values it puts into the inputs
parseSettings(data) ==
    [power       |-> JsOr(At(data, OFFSET.START_POWER), 5),
     range       |-> JsOr(At(data, OFFSET.SINE_RANGE), 25),
     stopPower   |-> JsOr(At(data, OFFSET.BRAKE_STR), 2),
     timing      |-> JsOr(At(data, OFFSET.TIMING), 15),
     beep        |-> JsOr(At(data, OFFSET.BEEP), 40),
     kv          |-> Times40(JsOr(At(data, OFFSET.KV), 50)) + 20,
     poles       |-> JsOr(At(data, OFFSET.POLES), 14),
     brakeOnStop |-> At(data, OFFSET.BRAKE_STOP) = 1,
     reverse     |-> At(data, OFFSET.DIR) = 1,
     compPwm     |-> At(data, OFFSET.COMP_PWM) = 1,
     varPwm      |-> At(data, OFFSET.VAR_PWM) = 1,
     stall       |-> At(data, OFFSET.STALL) = 1,
     stuck       |-> At(data, OFFSET.STUCK) = 1]

\* function loadDefaults() of part_001: only five inputs are set
loadDefaults(u) ==
    [u EXCEPT !.power = 5, !.range = 25, !.stopPower = 2, !.timing = 15,
              !.beep = 40]

\* Math.max(0, (parseInt(kv) - 20) / 40): not rounded
EncodeKV(kv) ==
    IF kv - 20 <= 0 THEN 0
    ELSE IF (kv - 20) % 40 = 0 THEN (kv - 20) \div 40
    ELSE -(kv - 20)

\* checked ? 1 : 0
Flag(b) == IF b THEN 1 ELSE 0

\* handleSave: let newBytes = [...originalSettings]; newBytes[OFFSET.x] = ...
EncodeSettings(orig, u) ==
    LET b1  == SetAt(orig, OFFSET.START_POWER, u.power)
        b2  == SetAt(b1, OFFSET.SINE_RANGE, u.range)
        b3  == SetAt(b2, OFFSET.BRAKE_STR, u.stopPower)
        b4  == SetAt(b3, OFFSET.TIMING, u.timing)
        b5  == SetAt(b4, OFFSET.BEEP, u.beep)
        b6  == SetAt(b5, OFFSET.KV, EncodeKV(u.kv))
        b7  == SetAt(b6, OFFSET.POLES, u.poles)
        b8  == SetAt(b7, OFFSET.BRAKE_STOP, Flag(u.brakeOnStop))
        b9  == SetAt(b8, OFFSET.DIR, Flag(u.reverse))
        b10 == SetAt(b9, OFFSET.COMP_PWM, Flag(u.compPwm))
        b11 == SetAt(b10, OFFSET.VAR_PWM, Flag(u.varPwm))
        b12 == SetAt(b11, OFFSET.STALL, Flag(u.stall))
    IN  SetAt(b12, OFFSET.STUCK, Flag(u.stuck))

\* part_001 handleSave: new Array(176).fill(0) with the three safety flags set
DefaultImage ==
    [k \in 1..totalSize |->
        IF k - 1 \in {OFFSET.COMP_PWM, OFFSET.STALL, OFFSET.STUCK} THEN 1 ELSE 0]

(***************************************************************************)
(* The device: the bootloader the scripts talk to.  Its memory holds one   *)
(* of a few images; the region is followed by flash the scripts do not own.*)
(***************************************************************************)
MemSize == totalSize + chunkSize

PlainImage ==
    [k \in 1..MemSize |->
        IF k - 1 \in {OFFSET.COMP_PWM, OFFSET.STALL, OFFSET.STUCK} THEN 1
        ELSE IF k - 1 = OFFSET.KV THEN 49
        ELSE 2 + ((k - 1) % 7)]

\* an image whose data holds the values of the status bytes
TrickyImage ==
    [k \in 1..MemSize |->
        IF k = 1 THEN ACK
        ELSE IF k = 6 THEN NACK1
        ELSE IF k - 1 = OFFSET.START_POWER THEN 0
        ELSE PlainImage[k]]

DeviceImages == {PlainImage, TrickyImage}

(***************************************************************************)
(* State.                                                                  *)
(***************************************************************************)
VARIABLES
    variant,            \* the script loaded in the page
    connected,          \* let connected
    originalSettings,   \* let originalSettings
    ui,                 \* the values of the inputs (input-power, ...)
    portOpen,           \* port, writer and reader are open and usable
    tk,                 \* the handler invocations and their locals
    readq,              \* pending reader.read() requests, oldest first
    rxq,                \* chunks the port received and no read() took yet
    devq,               \* response bytes the device has not delivered yet
    cuts,               \* partial deliveries since the last packet
    devAddr,            \* the device's address pointer
    mem,                \* the device's memory from BaseAddr on
    order,              \* running sendPacket calls, by their start time
    faults,             \* device responses outside the expected dialect
    lates,              \* responses split across the end of a wait budget
    clicks,             \* clicks so far
    rushes,             \* clicks that landed while a handler was running
    budget,             \* what the environment may still do in this run
    bench               \* the settings codec applied on its own: its inputs
                        \* and what it gave

vars == <<variant, connected, originalSettings, ui, portOpen, tk, readq, rxq,
          devq, cuts, devAddr, mem, order, faults, lates, clicks, rushes,
          budget, bench>>

Tasks == 1..MaxTasks

\* a free invocation slot.  Beside the locals of the handler and of its
\* running sendPacket call, a slot keeps what an observer of the run would
\* note down: res and how (the last value a sendPacket call returned, and by
\* which return statement), addrRes (what the last set-address call
\* returned), failedAt (the offset at which a chunk was given up), sent (the
\* packets written, with the device's answer and address pointer), taken
\* (the last read response whose payload went into the image), unacked (a
\* write call returned bytes without the ACK value), outcome, atCall
\* (originalSettings as handleSave found it when it was called).
IdleTask ==
    [kind |-> "none", pc |-> "idle", site |-> "none", i |-> 0,
     fullData |-> <<>>, newBytes |-> <<>>, packet |-> <<>>, expected |-> 0,
     buffer |-> <<>>, late |-> FALSE, rejected |-> FALSE, res |-> null,
     how |-> "none", sent |-> <<>>, taken |-> <<>>, unacked |-> FALSE,
     addrRes |-> null, failedAt |-> -1, outcome |-> "none",
     atCall |-> null]

\* the codec has not been applied on its own
IdleBench ==
    [step |-> "none", image |-> <<>>, record |-> DefaultUi,
     originalSettings |-> <<>>, newBytes |-> <<>>, shown |-> DefaultUi]

\* the mutable state as one value, so that the code between two awaits can
\* be written as a function from state to the set of its possible results
Cur ==
    [connected |-> connected, originalSettings |-> originalSettings,
     ui |-> ui, portOpen |-> portOpen, tk |-> tk, readq |-> readq,
     rxq |-> rxq, devq |-> devq, cuts |-> cuts, devAddr |-> devAddr,
     mem |-> mem, order |-> order, faults |-> faults]

Becomes(s) ==
    /\ connected' = s.connected
    /\ originalSettings' = s.originalSettings
    /\ ui' = s.ui
    /\ portOpen' = s.portOpen
    /\ tk' = s.tk
    /\ readq' = s.readq
    /\ rxq' = s.rxq
    /\ devq' = s.devq
    /\ cuts' = s.cuts
    /\ devAddr' = s.devAddr
    /\ mem' = s.mem
    /\ order' = s.order
    /\ faults' = s.faults

Remove(q, t) == SelectSeq(q, LAMBDA u : u # t)

(***************************************************************************)
(* The device's side of one command.                                       *)
(***************************************************************************)
CrcBytes(data) == <<crc16(data) % 256, (crc16(data) \div 256) % 256>>

DevRead(m, addr, n) ==
    [k \in 1..n |->
        IF addr - BaseAddr + k \in 1..MemSize THEN m[addr - BaseAddr + k] ELSE 255]

DevWrite(m, addr, bytes) ==
    [k \in 1..MemSize |->
        IF k - (addr - BaseAddr) \in 1..Len(bytes)
        THEN bytes[k - (addr - BaseAddr)] ELSE m[k]]

\* sizes of a first, partial read() result
CutSizes == {1, 10}

\* what the device answers: the expected response; nothing; the echo of the
\* one-wire link and nothing after it; an error status
SimpleShapes == {"ok", "silent", "echo", "nack"}

ReadShapes == SimpleShapes \cup {"badcrc", "short"}

ShapesFor(site) == IF site = "read" THEN ReadShapes ELSE SimpleShapes

\* the response the script's comments expect for a command
\*   v2: [ECHO..., DATA..., CRC_L, CRC_H, ACK], simple commands [ECHO..., ACK]
\*   p0: the ACK, then the data and its checksum ("remove ACK/CRC")
\*   p1: 0x30, the data, two checksum bytes (slice(1, 177) of >= 178 bytes)
Expected(v, site, pkt, data) ==
    IF v = "v2"
    THEN pkt \o (IF site = "read" THEN data \o CrcBytes(data) ELSE <<>>) \o <<ACK>>
    ELSE IF v = "p0"
    THEN <<ACK>> \o (IF site = "read" THEN data \o CrcBytes(data) ELSE <<>>)
    ELSE <<ACK>> \o data \o CrcBytes(data)

Response(v, shape, site, pkt, data) ==
    LET ok == Expected(v, site, pkt, data)
        bad == (crc16(data) + 1) % 65536
    IN  CASE shape = "ok" -> ok
          [] shape = "silent" -> <<>>
          [] shape = "echo" -> pkt
          [] shape = "nack" ->
                (IF v = "v2" THEN pkt ELSE <<>>)
                    \o <<IF site = "write" THEN NACK1 ELSE NACK2>>
          [] shape = "badcrc" ->
                IF v = "v2"
                THEN pkt \o data \o <<bad % 256, bad \div 256>> \o <<ACK>>
                ELSE <<ACK>> \o data \o <<bad % 256, bad \div 256>>
          [] shape = "short" ->
                SubSeq(ok, 1, Len(ok) - ShortBy)

\* the device receives a packet: what is left of its previous response
\* reaches the port first, as a chunk of its own, then the device answers
\* and acts on the command
DeviceReceives(s, t, site, pkt, shape) ==
    LET params == SubSeq(pkt, 2, Len(pkt) - 2)
        data == IF site = "read" THEN DevRead(s.mem, s.devAddr, params[1]) ELSE <<>>
    IN  [s EXCEPT
            !.rxq = IF s.devq # <<>> THEN Append(@, s.devq) ELSE @,
            !.devq = Response(variant, shape, site, pkt, data),
            !.cuts = 0,
            !.faults = IF shape = "ok" THEN @ ELSE @ + 1,
            !.devAddr = IF site = "setaddr" /\ shape = "ok"
                        THEN 256 * params[2] + params[3] ELSE @,
            !.mem = IF site = "write" /\ shape = "ok"
                    THEN DevWrite(@, s.devAddr, params) ELSE @,
            !.tk[t].sent = Append(@, [site |-> site, pkt |-> pkt,
                                      shape |-> shape, addr |-> s.devAddr])]

(***************************************************************************)
(* sendPacket.                                                             *)
(***************************************************************************)
\* const targetLength = ...
targetLength(v, packet, expected) ==
    IF v = "v2" THEN Len(packet) + expected + (IF expected > 0 THEN 3 ELSE 1)
    ELSE IF expected > 0 THEN expected + 3 ELSE 1

\* the checks of the read loop after `for (let b of value) buffer.push(b)`:
\* "return" the buffer, return "null", or "continue" with the loop
LoopBody(v, packet, expected, buffer) ==
    CASE v = "v2" ->
            IF /\ Len(buffer) >= targetLength(v, packet, expected)
               /\ buffer[Len(buffer)] = ACK
            THEN "return"
            ELSE IF Includes(buffer, NACK1) \/ Includes(buffer, NACK2)
            THEN "null"
            ELSE "continue"
      [] v = "p0" ->
            IF expected = 0 /\ Includes(buffer, ACK) THEN "return"
            ELSE IF Len(buffer) >= targetLength(v, packet, expected) THEN "return"
            ELSE "continue"
      [] v = "p1" ->
            IF Len(packet) - 3 = 0 /\ Len(buffer) >= 3 /\ buffer[1] = ACK
            THEN "return"
            ELSE IF packet[1] = CMD(v).ReadEE /\ Len(buffer) >= ReadDoneP1
            THEN "return"
            ELSE "continue"

\* return buffer.length > 0 ? buffer : null
TimeoutValue(buffer) == IF Len(buffer) > 0 THEN buffer ELSE null

\* sendPacket up to `await writer.write(packet)`: the packet is built and
\* handed to the writer; a closed writer rejects the write
sendPacket(s, t, site, cmd, params, expected) ==
    LET pkt == MakePacket(cmd, params)
        s1 == [s EXCEPT !.tk[t].pc = "write", !.tk[t].site = site,
                        !.tk[t].packet = pkt, !.tk[t].expected = expected,
                        !.tk[t].buffer = <<>>, !.tk[t].late = FALSE,
                        !.tk[t].rejected = ~s.portOpen]
    IN  IF ~s.portOpen THEN {s1}
        ELSE {DeviceReceives(s1, t, site, pkt, shape) :
                shape \in {sh \in ShapesFor(site) :
                              sh = "ok" \/ s.faults + lates < budget.anomalies}}

(***************************************************************************)
(* disconnectSerial: cancel the reader (pending reads resolve with done),  *)
(* close the writer and the port, connected = false.                       *)
(***************************************************************************)
disconnectSerial(s) ==
    [s EXCEPT
        !.connected = FALSE, !.portOpen = FALSE,
        !.readq = <<>>, !.rxq = <<>>, !.devq = <<>>,
        !.tk = [u \in Tasks |->
                   IF s.tk[u].pc = "read"
                   THEN [s.tk[u] EXCEPT !.pc = "cancelled"] ELSE s.tk[u]]]

\* the serial device is lost (unplugged): the streams are errored, pending
\* reader.read() and writer.write() promises reject, and so does every
\* later write
linkLost(s) ==
    [s EXCEPT
        !.portOpen = FALSE, !.faults = @ + 1,
        !.readq = <<>>, !.rxq = <<>>, !.devq = <<>>,
        !.tk = [u \in Tasks |->
                   IF s.tk[u].pc = "read"
                   THEN [s.tk[u] EXCEPT !.pc = "failed"]
                   ELSE IF s.tk[u].pc = "write"
                   THEN [s.tk[u] EXCEPT !.rejected = TRUE]
                   ELSE s.tk[u]]]

(***************************************************************************)
(* handleConnection.                                                       *)
(***************************************************************************)
\* [0x00, addrHi, addrLo] computed from the offset in place of the address
SetAddrParamsOfOffset(i) == <<0, (i \div 256) % 256, i % 256>>

SetAddrParams(i) ==
    <<0, ((BaseAddr + i) \div 256) % 256, (BaseAddr + i) % 256>>

\* after the loop: if (fullData.length >= 100) {...} else {...}
hcFinish(s, t) ==
    LET fullData == s.tk[t].fullData
    IN  IF Len(fullData) >= MinStored
        THEN {[s EXCEPT !.originalSettings = fullData,
                        !.ui = parseSettings(fullData),
                        !.tk[t].pc = "done", !.tk[t].outcome = "loaded"]}
        ELSE {[s EXCEPT !.tk[t].pc = "done", !.tk[t].outcome = "incomplete"]}

\* for (let i = 0; i < totalSize; i += chunkSize) { sendPacket(SetAddr) ...
hcLoop(s, t) ==
    IF s.tk[t].i < totalSize
    THEN sendPacket(s, t, "setaddr", CMD(variant).SetAddr,
                    SetAddrParams(s.tk[t].i), 0)
    ELSE hcFinish(s, t)

\* catch (err) { alert(...); await disconnectSerial(); }
hcCatch(s, t) ==
    {disconnectSerial([s EXCEPT !.tk[t].pc = "done", !.tk[t].outcome = "error"])}

\* const rawResp = await sendPacket(CMD.ReadEE, [chunkSize], chunkSize)
hcRead(s, t) ==
    sendPacket(s, t, "read", CMD(variant).ReadEE, <<chunkSize>>, chunkSize)

\* the chunk taken as in part_000 whatever the script: no echo is skipped
CleanChunkNoEcho(v, resp) ==
    Slice(IF resp[1] = ACK THEN Slice(resp, 1, Len(resp)) ELSE resp,
          0, chunkSize)

\* the chunk taken out of a read response
CleanChunk(v, resp) ==
    IF v = "v2" THEN Slice(resp, 4, 4 + chunkSize)
    ELSE Slice(IF resp[1] = ACK THEN Slice(resp, 1, Len(resp)) ELSE resp,
               0, chunkSize)

\* handleConnection from the return of a sendPacket to the next await
hcReturn(s, t, res) ==
    LET r == s.tk[t]
    IN  CASE r.site = "init" ->
                IF variant = "p1"
                THEN sendPacket(s, t, "read", CMD(variant).ReadEE, <<totalSize>>, 0)
                ELSE {[s EXCEPT !.tk[t].pc = "delay"]}
          [] r.site = "setaddr" ->
                IF variant = "v2"
                THEN {[s EXCEPT !.tk[t].pc = "delay", !.tk[t].addrRes = res]}
                ELSE hcRead([s EXCEPT !.tk[t].addrRes = res], t)
          [] r.site = "read" /\ variant = "p1" ->
                IF res # null /\ Len(res) > MinResponseP1
                THEN {[s EXCEPT !.originalSettings = Slice(res, 1, 1 + totalSize),
                                !.ui = parseSettings(Slice(res, 1, 1 + totalSize)),
                                !.tk[t].pc = "done", !.tk[t].outcome = "loaded",
                                !.tk[t].taken = res]}
                ELSE {[s EXCEPT !.ui = loadDefaults(s.ui),
                                !.tk[t].pc = "done", !.tk[t].outcome = "defaults"]}
          [] r.site = "read" /\ variant # "p1" ->
                IF res = null
                THEN hcFinish([s EXCEPT !.tk[t].failedAt = r.i], t)
                ELSE LET s1 == [s EXCEPT !.tk[t].fullData =
                                            @ \o CleanChunk(variant, res),
                                         !.tk[t].taken = res]
                     IN  IF variant = "v2"
                         THEN {[s1 EXCEPT !.tk[t].pc = "delay"]}
                         ELSE hcLoop([s1 EXCEPT !.tk[t].i = @ + chunkSize], t)

\* hcDelay for a loop that does not advance i after a chunk: the next
\* pass addresses the same chunk again
hcDelaySameChunk(s, t) ==
    LET r == s.tk[t]
    IN  CASE r.site = "init" -> hcLoop([s EXCEPT !.tk[t].i = 0], t)
          [] r.site = "setaddr" -> hcRead(s, t)
          [] r.site = "read" -> hcLoop(s, t)

\* handleConnection after one of its setTimeout waits
hcDelay(s, t) ==
    LET r == s.tk[t]
    IN  CASE r.site = "init" -> hcLoop([s EXCEPT !.tk[t].i = 0], t)
          [] r.site = "setaddr" -> hcRead(s, t)
          [] r.site = "read" -> hcLoop([s EXCEPT !.tk[t].i = @ + chunkSize], t)

(***************************************************************************)
(* handleSave.                                                             *)
(***************************************************************************)
\* catch (e) { alert("Write Failed ..."); }
hsCatch(s, t) ==
    {[s EXCEPT !.tk[t].pc = "done", !.tk[t].outcome = "writeFailed"]}

\* btnSave.textContent = "Saved"; originalSettings = newBytes
hsSaved(s, t) ==
    {[s EXCEPT !.originalSettings = s.tk[t].newBytes,
               !.tk[t].pc = "done", !.tk[t].outcome = "saved"]}

\* for (let i = 0; i < 176; i += chunkSize) { sendPacket(SetAddr) ...
hsLoop(s, t) ==
    IF s.tk[t].i < totalSize
    THEN sendPacket(s, t, "setaddr", CMD(variant).SetAddr,
                    SetAddrParams(s.tk[t].i), 0)
    ELSE hsSaved(s, t)

\* handleSave from the return of a sendPacket to the next await
hsReturn(s0, t, res) ==
    LET r == s0.tk[t]
        s == IF r.site = "write" /\ res # null /\ ~Includes(res, ACK)
             THEN [s0 EXCEPT !.tk[t].unacked = TRUE] ELSE s0
    IN  CASE r.site = "setaddr" ->
                sendPacket([s EXCEPT !.tk[t].addrRes = res], t, "write",
                           CMD(variant).WriteEE,
                           Slice(r.newBytes, r.i, r.i + chunkSize), 0)
          [] r.site = "write" /\ variant = "p1" ->
                IF res # null THEN hsSaved(s, t) ELSE hsCatch(s, t)
          [] r.site = "write" /\ variant # "p1" ->
                IF res = null THEN hsCatch([s EXCEPT !.tk[t].failedAt = r.i], t)
                ELSE IF variant = "v2" THEN {[s EXCEPT !.tk[t].pc = "delay"]}
                ELSE hsLoop([s EXCEPT !.tk[t].i = @ + chunkSize], t)

\* handleSave after its setTimeout wait (v2: 50 ms after a chunk)
hsDelay(s, t) == hsLoop([s EXCEPT !.tk[t].i = @ + chunkSize], t)

\* handleSave with the guard of part_001 in every script: a connected page
\* without an image saves on the synthesized default image
handleSaveOnDefaults(s, t) ==
    LET fresh == [IdleTask EXCEPT !.kind = "save",
                                  !.atCall = s.originalSettings]
        orig == IF s.originalSettings = null THEN DefaultImage
                ELSE s.originalSettings
        newBytes == EncodeSettings(orig, s.ui)
        s1 == [s EXCEPT !.originalSettings = orig,
                        !.tk[t] = [fresh EXCEPT !.newBytes = newBytes]]
    IN  IF ~s.connected
        THEN {[s EXCEPT !.tk[t] = [fresh EXCEPT !.pc = "done",
                                                !.outcome = "ignored"]]}
        ELSE IF variant = "p1"
        THEN sendPacket(s1, t, "write", CMD(variant).WriteEE, newBytes, 0)
        ELSE hsLoop(s1, t)

\* handleSave from the click to its first await
handleSave(s, t) ==
    LET fresh == [IdleTask EXCEPT !.kind = "save",
                                  !.atCall = s.originalSettings]
    IN  IF variant = "p1"
        THEN IF ~s.connected
             THEN {[s EXCEPT !.tk[t] = [fresh EXCEPT !.pc = "done",
                                                     !.outcome = "ignored"]]}
             ELSE LET orig == IF s.originalSettings = null THEN DefaultImage
                              ELSE s.originalSettings
                      newBytes == EncodeSettings(orig, s.ui)
                  IN  sendPacket([s EXCEPT !.originalSettings = orig,
                                           !.tk[t] = [fresh EXCEPT
                                                        !.newBytes = newBytes]],
                                 t, "write", CMD(variant).WriteEE, newBytes, 0)
        ELSE IF ~s.connected \/ s.originalSettings = null
             THEN {[s EXCEPT !.tk[t] = [fresh EXCEPT !.pc = "done",
                                                     !.outcome = "ignored"]]}
             ELSE hsLoop([s EXCEPT !.tk[t] =
                             [fresh EXCEPT !.newBytes =
                                 EncodeSettings(s.originalSettings, s.ui)]], t)

(***************************************************************************)
(* Leaving sendPacket: by its return value res, or by an exception.        *)
(***************************************************************************)
Return(s, t, res, how) ==
    LET s1 == [s EXCEPT !.tk[t].res = res, !.tk[t].how = how,
                        !.tk[t].late = FALSE, !.order = Remove(@, t)]
    IN  IF s.tk[t].kind = "connect" THEN hcReturn(s1, t, res)
        ELSE hsReturn(s1, t, res)

Throw(s, t) ==
    LET s1 == [s EXCEPT !.order = Remove(@, t), !.tk[t].how = "thrown"]
    IN  IF s.tk[t].kind = "connect" THEN hcCatch(s1, t) ELSE hsCatch(s1, t)

\* handleConnection from the click to its first await
handleConnection(s, t) ==
    LET fresh == [IdleTask EXCEPT !.kind = "connect"]
    IN  IF s.connected
        THEN {disconnectSerial([s EXCEPT !.tk[t] =
                 [fresh EXCEPT !.pc = "done", !.outcome = "disconnected"]])}
        ELSE {[s EXCEPT !.tk[t] = [fresh EXCEPT !.pc = "port"]]}

\* handleConnection after requestPort() and port.open(): the chooser was
\* dismissed or the port is already open (both throw), or the streams are
\* taken, connected = true, and Init is sent
hcOpened(s, t, granted) ==
    IF granted /\ ~s.portOpen
    THEN sendPacket([s EXCEPT !.portOpen = TRUE, !.connected = TRUE,
                              !.rxq = <<>>, !.devq = <<>>],
                    t, "init", CMD(variant).Init, <<0>>, 0)
    ELSE hcCatch(s, t)

\* sendPacket after `await writer.write(packet)`: start = Date.now() and the
\* first reader.read().  A released reader (v2 after disconnectSerial)
\* throws; a cancelled one answers done.
spWritten(s, t) ==
    IF s.tk[t].rejected THEN Throw(s, t)
    ELSE IF ~s.portOpen
    THEN IF variant = "v2" THEN Throw(s, t)
         ELSE {[s EXCEPT !.tk[t].pc = "cancelled", !.order = Append(@, t)]}
    ELSE {[s EXCEPT !.tk[t].pc = "read", !.readq = Append(@, t),
                    !.order = Append(@, t)]}

\* sendPacket after `await reader.read()` gave a chunk: the loop body, the
\* loop condition, and the next reader.read()
spChunk(s, t) ==
    LET s1 == [s EXCEPT !.rxq = Tail(@), !.readq = Tail(@),
                        !.tk[t].buffer = @ \o Head(s.rxq)]
        r == s1.tk[t]
        verdict == LoopBody(variant, r.packet, r.expected, r.buffer)
    IN  CASE verdict = "return" -> Return(s1, t, r.buffer, "loop")
          [] verdict = "null" -> Return(s1, t, null, "loop")
          [] verdict = "continue" ->
                IF r.late THEN Return(s1, t, TimeoutValue(r.buffer), "timeout")
                ELSE {[s1 EXCEPT !.readq = Append(@, t)]}

\* sendPacket after `await reader.read()` gave done: break
spDone(s, t) == Return(s, t, TimeoutValue(s.tk[t].buffer), "done")

(***************************************************************************)
(* Actions.                                                                *)
(***************************************************************************)
Free(t) ==
    /\ tk[t].pc \in {"idle", "done"}
    /\ \A u \in Tasks : u < t => tk[u].pc \notin {"idle", "done"}

\* a promise of reader.read() is already resolved: its continuation runs
\* before any other event is handled
Urgent ==
    \/ rxq # <<>> /\ readq # <<>>
    \/ \E u \in Tasks : tk[u].pc \in {"cancelled", "failed"}

\* no handler is between its click and its end
Quiet == \A u \in Tasks : tk[u].pc \in {"idle", "done"}

\* a click: the user waits for the running handlers, or rushes
Click ==
    /\ ~Urgent
    /\ clicks < budget.clicks
    /\ Quiet \/ rushes < budget.rush
    /\ clicks' = clicks + 1
    /\ rushes' = IF Quiet THEN rushes ELSE rushes + 1

\* a click on btn-connect
ConnectClick(t) ==
    /\ Click
    /\ Free(t)
    /\ \E s2 \in handleConnection(Cur, t) : Becomes(s2)
    /\ UNCHANGED <<variant, lates, budget, bench>>

\* a click on btn-save, with the inputs as the user left them: untouched
\* since they were last filled in, or set to one of UserRecords
SaveClick(t) ==
    /\ Click
    /\ Free(t)
    /\ \E u \in {ui} \cup UserRecords :
          \E s2 \in handleSave([Cur EXCEPT !.ui = u], t) : Becomes(s2)
    /\ UNCHANGED <<variant, lates, budget, bench>>

PortOpened(t) ==
    /\ ~Urgent
    /\ tk[t].pc = "port"
    /\ \E granted \in BOOLEAN : \E s2 \in hcOpened(Cur, t, granted) : Becomes(s2)
    /\ UNCHANGED <<variant, lates, clicks, rushes, budget, bench>>

WriteDone(t) ==
    /\ ~Urgent
    /\ tk[t].pc = "write"
    /\ \E s2 \in spWritten(Cur, t) : Becomes(s2)
    /\ UNCHANGED <<variant, lates, clicks, rushes, budget, bench>>

ReadDone(t) ==
    /\ tk[t].pc = "read"
    /\ readq # <<>> /\ Head(readq) = t
    /\ rxq # <<>>
    /\ \E s2 \in spChunk(Cur, t) : Becomes(s2)
    /\ UNCHANGED <<variant, lates, clicks, rushes, budget, bench>>

ReadCancelled(t) ==
    /\ tk[t].pc = "cancelled"
    /\ \E s2 \in spDone(Cur, t) : Becomes(s2)
    /\ UNCHANGED <<variant, lates, clicks, rushes, budget, bench>>

\* `await reader.read()` throws in sendPacket: the exception reaches the
\* catch of the handler
ReadFailed(t) ==
    /\ tk[t].pc = "failed"
    /\ \E s2 \in Throw(Cur, t) : Becomes(s2)
    /\ UNCHANGED <<variant, lates, clicks, rushes, budget, bench>>

\* the device is unplugged while the port is open: an anomaly of the link
LinkLost ==
    /\ ~Urgent
    /\ portOpen
    /\ faults + lates < budget.anomalies
    /\ Becomes(linkLost(Cur))
    /\ UNCHANGED <<variant, lates, clicks, rushes, budget, bench>>

\* a setTimeout of a handler fires
DelayDone(t) ==
    /\ ~Urgent
    /\ tk[t].pc = "delay"
    /\ \E s2 \in (IF tk[t].kind = "connect" THEN hcDelay(Cur, t)
                  ELSE hsDelay(Cur, t)) : Becomes(s2)
    /\ UNCHANGED <<variant, lates, clicks, rushes, budget, bench>>

\* bytes of the device's response reach the port: all that is pending, or,
\* while the response may still be split, a first piece.  A piece that
\* reaches a call whose wait budget has elapsed is an anomaly of the link.
Arrive ==
    /\ ~Urgent
    /\ portOpen
    /\ devq # <<>>
    /\ \E n \in {Len(devq)} \cup
                (IF cuts < MaxChunks - 1 THEN {c \in CutSizes : c < Len(devq)}
                 ELSE {}) :
          LET straddles == /\ n < Len(devq)
                           /\ readq # <<>>
                           /\ tk[Head(readq)].late
          IN  /\ straddles => faults + lates < budget.anomalies
              /\ rxq' = Append(rxq, SubSeq(devq, 1, n))
              /\ devq' = SubSeq(devq, n + 1, Len(devq))
              /\ cuts' = IF n < Len(devq) THEN cuts + 1 ELSE cuts
              /\ lates' = IF straddles THEN lates + 1 ELSE lates
    /\ UNCHANGED <<variant, connected, originalSettings, ui, portOpen, tk,
                   readq, devAddr, mem, order, faults, clicks, rushes,
                   budget, bench>>

\* time passes while a call waits in reader.read() and nothing has arrived:
\* the wait budget of the oldest running call elapses
Tick(t) ==
    /\ ~Urgent
    /\ tk[t].pc = "read"
    /\ rxq = <<>>
    /\ \E k \in 1..Len(order) :
          /\ order[k] = t
          /\ ~tk[t].late
          /\ \A j \in 1..(k - 1) : tk[order[j]].late
    /\ tk' = [tk EXCEPT ![t].late = TRUE]
    /\ UNCHANGED <<variant, connected, originalSettings, ui, portOpen, readq,
                   rxq, devq, cuts, devAddr, mem, order, faults, lates,
                   clicks, rushes, budget, bench>>

\* what the environment does in one run: a user who waits for each handler,
\* on a link that works; a user who may click while a handler runs, on a
\* link that works; a user who waits for each handler, on a link that fails
Profiles ==
    { [clicks |-> MaxClicks, rush |-> 0, anomalies |-> 0,
       images |-> DeviceImages],
      [clicks |-> ShortRun, rush |-> MaxRush, anomalies |-> 0,
       images |-> DeviceImages],
      [clicks |-> ShortRun, rush |-> 0, anomalies |-> MaxAnomalies,
       images |-> {TrickyImage}] }

Init ==
    /\ variant \in Variants
    /\ budget \in Profiles
    /\ connected = FALSE
    /\ originalSettings = null
    /\ ui = DefaultUi
    /\ portOpen = FALSE
    /\ tk = [t \in Tasks |-> IdleTask]
    /\ readq = <<>>
    /\ rxq = <<>>
    /\ devq = <<>>
    /\ cuts = 0
    /\ devAddr = BaseAddr
    /\ mem \in budget.images
    /\ order = <<>>
    /\ faults = 0
    /\ lates = 0
    /\ clicks = 0
    /\ rushes = 0
    /\ bench = IdleBench

Next ==
    \/ \E t \in Tasks : ConnectClick(t)
    \/ \E t \in Tasks : SaveClick(t)
    \/ \E t \in Tasks : PortOpened(t)
    \/ \E t \in Tasks : WriteDone(t)
    \/ \E t \in Tasks : ReadDone(t)
    \/ \E t \in Tasks : ReadCancelled(t)
    \/ \E t \in Tasks : ReadFailed(t)
    \/ LinkLost
    \/ \E t \in Tasks : DelayDone(t)
    \/ Arrive
    \/ \E t \in Tasks : Tick(t)

Spec == Init /\ [][Next]_vars

(***************************************************************************)
(* part_001 on its own, with a user who clicks while a handler is running  *)
(* and a link that departs from the expected exchange in the same run.     *)
(* The script sends one command per transfer and never waits on a timer    *)
(* between commands, so DelayDone has no part in it.                       *)
(***************************************************************************)
P1Init ==
    /\ variant = "p1"
    /\ budget = [clicks |-> ShortRun, rush |-> MaxRush,
                 anomalies |-> MaxAnomalies, images |-> DeviceImages]
    /\ connected = FALSE
    /\ originalSettings = null
    /\ ui = DefaultUi
    /\ portOpen = FALSE
    /\ tk = [t \in Tasks |-> IdleTask]
    /\ readq = <<>>
    /\ rxq = <<>>
    /\ devq = <<>>
    /\ cuts = 0
    /\ devAddr = BaseAddr
    /\ mem \in budget.images
    /\ order = <<>>
    /\ faults = 0
    /\ lates = 0
    /\ clicks = 0
    /\ rushes = 0
    /\ bench = IdleBench

P1Next ==
    \/ \E t \in Tasks : ConnectClick(t)
    \/ \E t \in Tasks : SaveClick(t)
    \/ \E t \in Tasks : PortOpened(t)
    \/ \E t \in Tasks : WriteDone(t)
    \/ \E t \in Tasks : ReadDone(t)
    \/ \E t \in Tasks : ReadCancelled(t)
    \/ \E t \in Tasks : ReadFailed(t)
    \/ LinkLost
    \/ Arrive
    \/ \E t \in Tasks : Tick(t)

P1Spec == P1Init /\ [][P1Next]_vars

(***************************************************************************)
(* The settings codec on its own: parseSettings and the field writes of    *)
(* handleSave, applied to images and records drawn from bounded sets.  The *)
(* link plays no part: the page is as it is after loading.                 *)
(***************************************************************************)
\* the largest value of a byte
MaxByte == 255

\* the offsets handleSave writes
Covered == {OFFSET[f] : f \in DOMAIN OFFSET}

\* the largest value input-kv shows for a byte: MaxByte * 40 + 20
MaxKV == Times40(MaxByte) + 20

\* an image of len bytes whose covered offsets all hold b
ImageOf(len, b) ==
    [k \in 1..len |-> IF k - 1 \in Covered THEN b ELSE PlainImage[k]]

\* the images given to the codec: every byte value at the covered offsets
\* of a 176-byte image, and the shortest and the longest image a chunked
\* load stores (100 bytes; six chunks of 32)
CodecImages ==
    {ImageOf(totalSize, b) : b \in 0..MaxByte}
        \cup {ImageOf(len, b) :
                len \in {MinStored,
                         chunkSize * ((totalSize + chunkSize - 1) \div chunkSize)},
                b \in {0, 1}}

\* a record whose numeric fields all hold n and whose flags hold f and ~f
RecordOf(n, kv, f) ==
    [power |-> n, range |-> n, stopPower |-> n, timing |-> n, beep |-> n,
     kv |-> kv, poles |-> n, brakeOnStop |-> f, reverse |-> ~f,
     compPwm |-> f, varPwm |-> ~f, stall |-> f, stuck |-> ~f]

\* the records given to the codec: the ends of the range of a numeric field
\* and a value between them; KV values at the ends of its range, on a step
\* of 40 above 20 and between two steps
CodecRecords ==
    {RecordOf(n, kv, f) : n \in {0, 1, MaxByte},
                          kv \in {0, 20, 60, 2000, MaxKV},
                          f \in BOOLEAN}

\* the state of the page and of the link, which the codec leaves alone
page == <<variant, connected, originalSettings, ui, portOpen, tk, readq, rxq,
          devq, cuts, devAddr, mem, order, faults, lates, clicks, rushes,
          budget>>

\* handleSave up to its try block: newBytes is a copy of originalSettings
\* in which the thirteen fields are written; originalSettings stays as it is
BuildNewBytes(orig, u) ==
    [originalSettings |-> orig, newBytes |-> EncodeSettings(orig, u)]

\* the field writes of handleSave, on the image and the record as drawn
Encode ==
    /\ bench.step = "start"
    /\ LET b == BuildNewBytes(bench.originalSettings, bench.record)
       IN  bench' = [bench EXCEPT !.step = "encoded",
                                  !.originalSettings = b.originalSettings,
                                  !.newBytes = b.newBytes]
    /\ UNCHANGED page

\* parseSettings on the image handleSave built
DecodeEncoded ==
    /\ bench.step = "encoded"
    /\ bench' = [bench EXCEPT !.step = "encodedDecoded",
                              !.shown = parseSettings(bench.newBytes)]
    /\ UNCHANGED page

\* parseSettings on the image as drawn
Decode ==
    /\ bench.step = "start"
    /\ bench' = [bench EXCEPT !.step = "decoded",
                              !.shown = parseSettings(bench.originalSettings)]
    /\ UNCHANGED page

\* the field writes of handleSave, with the inputs as parseSettings left them
EncodeDecoded ==
    /\ bench.step = "decoded"
    /\ LET b == BuildNewBytes(bench.originalSettings, bench.shown)
       IN  bench' = [bench EXCEPT !.step = "decodedEncoded",
                                  !.originalSettings = b.originalSettings,
                                  !.newBytes = b.newBytes]
    /\ UNCHANGED page

CodecInit ==
    /\ variant = "v2"
    /\ budget = [clicks |-> 0, rush |-> 0, anomalies |-> 0,
                 images |-> {PlainImage}]
    /\ connected = FALSE
    /\ originalSettings = null
    /\ ui = DefaultUi
    /\ portOpen = FALSE
    /\ tk = [t \in Tasks |-> IdleTask]
    /\ readq = <<>>
    /\ rxq = <<>>
    /\ devq = <<>>
    /\ cuts = 0
    /\ devAddr = BaseAddr
    /\ mem = PlainImage
    /\ order = <<>>
    /\ faults = 0
    /\ lates = 0
    /\ clicks = 0
    /\ rushes = 0
    /\ bench \in {[step |-> "start", image |-> im, record |-> r,
                   originalSettings |-> im, newBytes |-> <<>>,
                   shown |-> DefaultUi] :
                      im \in CodecImages, r \in CodecRecords}

CodecNext ==
    \/ Encode
    \/ DecodeEncoded
    \/ Decode
    \/ EncodeDecoded

CodecSpec == CodecInit /\ [][CodecNext]_vars
(***************************************************************************)
(* The contract of the transfer engine, stated on the scripts.             *)
(***************************************************************************)
\* a handler invocation is moving data over the link
InTransfer(t) ==
    tk[t].pc \in {"write", "read", "delay", "cancelled", "failed"}

(***************************************************************************)
(* The checksums and the packet builders as pure functions: a command, a    *)
(* parameter list and an address are drawn, and each function is applied    *)
(* to them once.                                                            *)
(***************************************************************************)
\* the command bytes of the CMD tables (0x01, 0x03, 0xFD, 0xFF of
\* sendPacket's protocol; 0x30, 0x3B, 0x3C of sendCommand's) and "1", which
\* with the parameters "23456789" is the standard check input
PacketCmds == {1, 3, 253, 255, 48, 59, 60, 49}

\* the parameter lists of the call sites ([0], [chunkSize], [176],
\* [0x00, addrHi, addrLo], a chunk of an image, a whole image), the empty
\* default, and lists that set the high bits
PacketParams ==
    {<<>>, <<0>>, <<chunkSize>>, <<totalSize>>,
     <<0, BaseAddr \div 256, 0>>, <<0, BaseAddr \div 256, 160>>,
     <<50, 51, 52, 53, 54, 55, 56, 57>>, <<128>>, <<255, 255>>,
     Slice(TrickyImage, 0, chunkSize), Slice(TrickyImage, 0, totalSize)}

\* addr of sendCommand: its default, the ends of the region, the largest
\* 16-bit address and one beyond 16 bits
PacketAddrs == {0, BaseAddr, BaseAddr + totalSize - 1, 65535, 74565}

\* crc16(new Uint8Array(payload)) of sendPacket
Crc16 ==
    /\ bench.step = "start"
    /\ bench' = [bench EXCEPT !.step = "crc16",
                              !.crc = crc16(bench.data)]
    /\ UNCHANGED page

\* crc16(new Uint8Array(payload.slice(1))) of sendCommand
Crc16Xmodem ==
    /\ bench.step = "start"
    /\ bench' = [bench EXCEPT !.step = "crc16Xmodem",
                              !.crc = crc16Xmodem(bench.data)]
    /\ UNCHANGED page

\* the packet sendPacket hands to writer.write
WritePacket ==
    /\ bench.step = "start"
    /\ bench' = [bench EXCEPT !.step = "sendPacket",
                              !.packet = MakePacket(bench.cmd, bench.params)]
    /\ UNCHANGED page

\* the packet sendCommand hands to writer.write
WriteCommand ==
    /\ bench.step = "start"
    /\ bench' = [bench EXCEPT !.step = "sendCommand",
                              !.packet = MakeCommand(bench.cmd, bench.params,
                                                     bench.addr)]
    /\ UNCHANGED page

PacketInit ==
    /\ variant = "v2"
    /\ budget = [clicks |-> 0, rush |-> 0, anomalies |-> 0,
                 images |-> {PlainImage}]
    /\ connected = FALSE
    /\ originalSettings = null
    /\ ui = DefaultUi
    /\ portOpen = FALSE
    /\ tk = [t \in Tasks |-> IdleTask]
    /\ readq = <<>>
    /\ rxq = <<>>
    /\ devq = <<>>
    /\ cuts = 0
    /\ devAddr = BaseAddr
    /\ mem = PlainImage
    /\ order = <<>>
    /\ faults = 0
    /\ lates = 0
    /\ clicks = 0
    /\ rushes = 0
    /\ bench \in {[step |-> "start", cmd |-> c, params |-> p, addr |-> a,
                   data |-> Uint8Array(<<c>> \o p), crc |-> 0,
                   packet |-> <<>>] :
                      c \in PacketCmds, p \in PacketParams, a \in PacketAddrs}

PacketNext ==
    \/ Crc16
    \/ Crc16Xmodem
    \/ WritePacket
    \/ WriteCommand

PacketSpec == PacketInit /\ [][PacketNext]_vars

(***************************************************************************)
(* The read loop of sendPacket as a pure function of the read() results:   *)
(* a device response is drawn, and the loop is run once on the response    *)
(* delivered whole and once on the same bytes delivered in two parts.      *)
(***************************************************************************)
RECURSIVE readLoop(_, _, _, _, _, _)
\* the while loop of sendPacket from the k-th read() result on, entered
\* with buffer: each value is pushed and the checks of the script are made;
\* when no value is left the wait ends and the buffer, if any, is returned
readLoop(v, packet, expected, values, k, buffer) ==
    IF k > Len(values)
    THEN [how |-> "timeout", res |-> TimeoutValue(buffer)]
    ELSE LET b == buffer \o values[k]
             r == LoopBody(v, packet, expected, b)
         IN  IF r = "return" THEN [how |-> "return", res |-> b]
             ELSE IF r = "null" THEN [how |-> "null", res |-> null]
             ELSE readLoop(v, packet, expected, values, k + 1, b)

\* the calls of the scripts on chunk i of an image: site, command,
\* parameters and expectedDataBytes
LoopCalls(v, image, i) ==
    IF v = "p1"
    THEN {[site |-> "init", cmd |-> CMD(v).Init, params |-> <<0>>,
           expected |-> 0],
          [site |-> "read", cmd |-> CMD(v).ReadEE, params |-> <<totalSize>>,
           expected |-> 0],
          [site |-> "write", cmd |-> CMD(v).WriteEE,
           params |-> Slice(image, 0, totalSize), expected |-> 0]}
    ELSE {[site |-> "setaddr", cmd |-> CMD(v).SetAddr,
           params |-> SetAddrParams(i), expected |-> 0],
          [site |-> "read", cmd |-> CMD(v).ReadEE, params |-> <<chunkSize>>,
           expected |-> chunkSize],
          [site |-> "write", cmd |-> CMD(v).WriteEE,
           params |-> Slice(image, i, i + chunkSize), expected |-> 0]}

\* the response delivered by one read()
Whole ==
    /\ bench.step \in {"start", "split"}
    /\ bench' = [bench EXCEPT
                    !.step = IF bench.step = "start" THEN "whole" ELSE "both",
                    !.whole = readLoop(variant, bench.packet, bench.expected,
                                       <<bench.response>>, 1, <<>>)]
    /\ UNCHANGED page

\* the same bytes delivered by two read()s, cut after bench.cut bytes
Split ==
    /\ bench.step \in {"start", "whole"}
    /\ bench' = [bench EXCEPT
                    !.step = IF bench.step = "start" THEN "split" ELSE "both",
                    !.split = readLoop(variant, bench.packet, bench.expected,
                                       <<SubSeq(bench.response, 1, bench.cut),
                                         SubSeq(bench.response, bench.cut + 1,
                                                Len(bench.response))>>,
                                       1, <<>>)]
    /\ UNCHANGED page

LoopInit ==
    /\ variant \in Variants
    /\ budget = [clicks |-> 0, rush |-> 0, anomalies |-> 0,
                 images |-> {PlainImage}]
    /\ connected = FALSE
    /\ originalSettings = null
    /\ ui = DefaultUi
    /\ portOpen = FALSE
    /\ tk = [t \in Tasks |-> IdleTask]
    /\ readq = <<>>
    /\ rxq = <<>>
    /\ devq = <<>>
    /\ cuts = 0
    /\ devAddr = BaseAddr
    /\ mem = PlainImage
    /\ order = <<>>
    /\ faults = 0
    /\ lates = 0
    /\ clicks = 0
    /\ rushes = 0
    /\ \E image \in DeviceImages, i \in {0, chunkSize},
          shape \in {"ok", "nack", "short"}, cut \in CutSizes :
          \E c \in LoopCalls(variant, image, i) :
             LET pkt == MakePacket(c.cmd, c.params)
                 data == IF c.site = "read"
                         THEN DevRead(image, BaseAddr + i, c.params[1])
                         ELSE <<>>
                 response == Response(variant, shape, c.site, pkt, data)
             IN  /\ shape \in ShapesFor(c.site)
                 /\ cut < Len(response)
                 /\ bench = [step |-> "start", site |-> c.site,
                             packet |-> pkt, expected |-> c.expected,
                             response |-> response, cut |-> cut,
                             whole |-> [how |-> "none", res |-> null],
                             split |-> [how |-> "none", res |-> null]]

LoopNext ==
    \/ Whole
    \/ Split

LoopSpec == LoopInit /\ [][LoopNext]_vars

(***************************************************************************)
(* disconnectSerial step by step, in each of the five scripts: "v1" is the *)
(* first script of script.js, "v3" its last, the others as in Variants.    *)
(* The script, the handles that are set and the value of connected at the  *)
(* call are drawn; each cancel or close may succeed or raise an error.     *)
(***************************************************************************)
Scripts == {"v1", "v2", "p0", "p1", "v3"}

\* the order in which disconnectSerial takes the handles
CloseOrder(script) ==
    IF script \in {"v1", "v2"} THEN <<"reader", "writer", "port">>
    ELSE <<"writer", "reader", "port">>

\* the steps are inside try { } catch(e) { console.log(e); }
HasTry(script) == script # "v3"

\* if (handle) await handle.cancel() / handle.close(): the handle is not
\* set and the step is skipped, or the call succeeds
CloseDone ==
    /\ bench.step = "close"
    /\ bench' = IF bench.at = 3 THEN [bench EXCEPT !.step = "flag"]
                ELSE [bench EXCEPT !.at = @ + 1]
    /\ UNCHANGED page

\* the call raises an error: control goes to the catch block, or out of the
\* function where there is none
CloseThrows ==
    /\ bench.step = "close"
    /\ bench.set[CloseOrder(bench.script)[bench.at]]
    /\ bench' = [bench EXCEPT !.step = IF HasTry(bench.script) THEN "catch"
                                       ELSE "thrown"]
    /\ UNCHANGED page

\* catch(e) { console.log(e); }
CloseCaught ==
    /\ bench.step = "catch"
    /\ bench' = [bench EXCEPT !.step = "flag"]
    /\ UNCHANGED page

\* connected = false; updateStatus("DISCONNECTED", false);
CloseFlag ==
    /\ bench.step = "flag"
    /\ bench' = [bench EXCEPT !.step = "end", !.connected = FALSE]
    /\ UNCHANGED page

CloseInit ==
    /\ variant = "v2"
    /\ budget = [clicks |-> 0, rush |-> 0, anomalies |-> 0,
                 images |-> {PlainImage}]
    /\ connected = FALSE
    /\ originalSettings = null
    /\ ui = DefaultUi
    /\ portOpen = FALSE
    /\ tk = [t \in Tasks |-> IdleTask]
    /\ readq = <<>>
    /\ rxq = <<>>
    /\ devq = <<>>
    /\ cuts = 0
    /\ devAddr = BaseAddr
    /\ mem = PlainImage
    /\ order = <<>>
    /\ faults = 0
    /\ lates = 0
    /\ clicks = 0
    /\ rushes = 0
    /\ bench \in {[step |-> "close", at |-> 1, script |-> sc, connected |-> c,
                   set |-> [reader |-> r, writer |-> w, port |-> p]] :
                      sc \in Scripts, c \in BOOLEAN,
                      r \in BOOLEAN, w \in BOOLEAN, p \in BOOLEAN}

CloseNext ==
    \/ CloseDone
    \/ CloseThrows
    \/ CloseCaught
    \/ CloseFlag

CloseSpec == CloseInit /\ [][CloseNext]_vars

\* the two bytes after the payload of a read response are the checksum of
\* the payload, low byte first
ChecksumOk(v, resp) ==
    LET body == IF v = "v2" THEN Slice(resp, 4, Len(resp))
                ELSE IF resp[1] = ACK THEN Slice(resp, 1, Len(resp)) ELSE resp
        n == IF v = "p1" THEN totalSize ELSE chunkSize
    IN  /\ Len(body) >= n + 2
        /\ crc16(SubSeq(body, 1, n)) = body[n + 1] + 256 * body[n + 2]

\* C1: an image held in originalSettings has the length of the region, 176:
\* a read that gathered any other number of bytes stores nothing.
C1_StoredImageIsWholeRegion ==
    originalSettings # null => Len(originalSettings) = totalSize

\* C2: a load in which the read command of a chunk failed does not end as
\* loaded: it is reported as incomplete and stores no image.
C2_FailedChunkNeverLoads ==
    \A t \in Tasks :
        (tk[t].kind = "connect" /\ tk[t].failedAt >= 0) =>
            tk[t].outcome # "loaded"

\* the last packet the invocation wrote to the link is of kind site
LastSent(t, site) ==
    /\ tk[t].sent # <<>>
    /\ tk[t].sent[Len(tk[t].sent)].site = site

\* C3: in the chunked scripts the read or write command of a chunk is
\* written to the link only if the set-address call of that chunk succeeded.
C3_DataOnlyAfterAddressSet ==
    \A t \in Tasks :
        (variant # "p1" /\ (LastSent(t, "read") \/ LastSent(t, "write"))) =>
            tk[t].addrRes # null

\* C4: a save ends as saved, and replaces originalSettings, only if every
\* write command was answered with the ACK byte.
C4_SavedOnlyWhenEveryChunkAcked ==
    \A t \in Tasks :
        (tk[t].kind = "save" /\ tk[t].outcome = "saved") => ~tk[t].unacked

\* C5: no read command of read-all asks for bytes at or beyond offset 176 of
\* the region: the final chunk asks for 16 bytes, not 32.  Stated for the
\* runs in which the link works and the user waits for each handler.
C5_ReadsStayInsideRegion ==
    \A t \in Tasks :
        (/\ faults = 0 /\ lates = 0 /\ rushes = 0
         /\ LastSent(t, "read") /\ tk[t].site = "read") =>
            tk[t].i + tk[t].packet[2] <= totalSize

\* C6: a sendPacket call that ends because its wait budget elapsed returns
\* the failure value, never the bytes received so far.
C6_TimeoutReturnsFailure ==
    \A t \in Tasks : tk[t].how = "timeout" => tk[t].res = null

\* C7: sendPacket never returns, as a success, a buffer that holds a NACK
\* byte (0xC1 or 0xC2).
C7_NackNeverReturnedAsSuccess ==
    \A t \in Tasks :
        tk[t].res # null =>
            ~Includes(tk[t].res, NACK1) /\ ~Includes(tk[t].res, NACK2)

\* C8: a read response whose payload goes into the image carries the
\* checksum of that payload.
C8_TakenPayloadHasItsChecksum ==
    \A t \in Tasks :
        tk[t].taken # <<>> => ChecksumOk(variant, tk[t].taken)

\* C9: no sendPacket call is still waiting in reader.read() once its wait
\* budget has elapsed and nothing more is on its way.
C9_NoCallWaitsPastItsBudget ==
    \A t \in Tasks :
        ~(tk[t].pc = "read" /\ tk[t].late /\ rxq = <<>> /\ devq = <<>>)

\* C10: at most one transfer (a load or a save) is in progress at any time.
C10_OneTransferAtATime ==
    \A t, u \in Tasks : (InTransfer(t) /\ InTransfer(u)) => t = u

\* a sendPacket call of the invocation is between its writer.write and its
\* return, and the port was open when the call began
InFlight(t) ==
    /\ tk[t].pc \in {"write", "read", "cancelled"}
    /\ ~tk[t].rejected

\* C11: the reader and the writer are not cancelled or closed while a
\* sendPacket call is in flight: a disconnect waits for the end of the
\* packet exchange.
C11_NoTeardownMidPacket ==
    \A t \in Tasks : InFlight(t) => portOpen

\* C12: a load that got no complete image does not fill the inputs with
\* default values: no load ends in loadDefaults().
C12_NoDefaultsOnFailedRead ==
    \A t \in Tasks : tk[t].outcome # "defaults"

\* the packets an invocation wrote show no repetition: no two set-address
\* commands carry the same address, every data command of a chunked script
\* directly follows the set-address command of its chunk, and the script
\* that moves the image in one piece writes its data command once
NoRetry(log) ==
    /\ \A j, k \in 1..Len(log) :
          (j < k /\ log[j].site = "setaddr" /\ log[k].site = "setaddr") =>
              log[j].pkt # log[k].pkt
    /\ \A k \in 1..Len(log) :
          log[k].site \in {"read", "write"} =>
              IF variant = "p1"
              THEN \A j \in 1..Len(log) : log[j].site = log[k].site => j = k
              ELSE k > 1 /\ log[k - 1].site = "setaddr"

\* C13: within one read-all or write-all nothing is retried: the set-address
\* command and the data command of a chunk are each written to the link at
\* most once, whatever the device answers.
C13_NothingIsRetried ==
    \A t \in Tasks : NoRetry(tk[t].sent)

\* a chunked load has ended at its second or a later chunk, after the
\* device failed the read command, and nothing was written after it
C13_Witness ==
    \E t \in Tasks :
        /\ variant # "p1"
        /\ tk[t].pc = "done"
        /\ tk[t].failedAt >= chunkSize
        /\ tk[t].sent[Len(tk[t].sent)].site = "read"
        /\ tk[t].sent[Len(tk[t].sent)].shape # "ok"

\* C14: the last-known image is discarded when the session ends: while the
\* page is disconnected, originalSettings is null.
C14_ImageDiscardedOnDisconnect ==
    ~connected => originalSettings = null

\* the fields of a record are within their ranges: a byte for a numeric
\* field, a value input-kv can show for the KV field
InRange(u) ==
    /\ \A n \in {u.power, u.range, u.stopPower, u.timing, u.beep, u.poles} :
          n \in 0..MaxByte
    /\ u.kv \in 20..MaxKV

\* C15: decoding the image that handleSave built from a record within its
\* ranges returns exactly that record: every numeric field (the value 0 as
\* well), every flag and the KV field.
C15_DecodeOfEncodeIsRecord ==
    (bench.step = "encodedDecoded" /\ InRange(bench.record)) =>
        bench.shown = bench.record

\* C16: the field writes of handleSave change only the 13 bytes at the
\* offsets 0x11, 0x14 .. 0x17, 0x19 .. 0x1E, 0x28, 0x29: every other byte of the new image is the byte of the
\* source image at the same index, the new image is as long as the source
\* image, and the source image is left as it was.
C16_EncodeChangesOnlyItsFields ==
    LET named == {17, 20, 21, 22, 23, 25, 26, 27, 28, 29, 30, 40, 41}
    IN  bench.step \in {"encoded", "decodedEncoded"} =>
            /\ Len(bench.newBytes) = Len(bench.image)
            /\ \A k \in 1..Len(bench.image) :
                  k - 1 \notin named => bench.newBytes[k] = bench.image[k]
            /\ bench.originalSettings = bench.image

\* an image has been encoded and every one of the 13 bytes has changed
C16_Witness ==
    /\ bench.step = "encoded"
    /\ \A off \in Covered :
          bench.newBytes[off + 1] # bench.image[off + 1]

\* C17: encoding what parseSettings decoded from an image gives back, at
\* every offset handleSave writes, the byte the image had.
C17_EncodeOfDecodeKeepsBytes ==
    bench.step = "decodedEncoded" =>
        \A off \in Covered : bench.newBytes[off + 1] = bench.image[off + 1]

\* C18: the KV field is stored as the integer max(0, floor((kv - 20) / 40)),
\* a byte: input 2000 is stored as 49.
C18_KvStoredAsFlooredByte ==
    LET kv == bench.record.kv
        floored == IF kv <= 20 THEN 0 ELSE (kv - 20) \div 40
    IN  (bench.step = "encoded" /\ InRange(bench.record)) =>
            /\ bench.newBytes[OFFSET.KV + 1] = floored
            /\ bench.newBytes[OFFSET.KV + 1] \in 0..MaxByte

\* C19: parseSettings shows the stored byte itself for power, range,
\* stop-power, timing, beep and poles, and raw * 40 + 20 for KV, for every
\* byte value (raw 0 shows 20).
C19_NumericFieldsReadAsStored ==
    bench.step = "decoded" =>
        /\ bench.shown.power = bench.image[OFFSET.START_POWER + 1]
        /\ bench.shown.range = bench.image[OFFSET.SINE_RANGE + 1]
        /\ bench.shown.stopPower = bench.image[OFFSET.BRAKE_STR + 1]
        /\ bench.shown.timing = bench.image[OFFSET.TIMING + 1]
        /\ bench.shown.beep = bench.image[OFFSET.BEEP + 1]
        /\ bench.shown.poles = bench.image[OFFSET.POLES + 1]
        /\ bench.shown.kv = 40 * bench.image[OFFSET.KV + 1] + 20

\* the flags of a record, by the offset of their byte
FlagAt(u) ==
    [off \in {OFFSET.BRAKE_STOP, OFFSET.DIR, OFFSET.COMP_PWM, OFFSET.VAR_PWM,
              OFFSET.STALL, OFFSET.STUCK} |->
        CASE off = OFFSET.BRAKE_STOP -> u.brakeOnStop
          [] off = OFFSET.DIR -> u.reverse
          [] off = OFFSET.COMP_PWM -> u.compPwm
          [] off = OFFSET.VAR_PWM -> u.varPwm
          [] off = OFFSET.STALL -> u.stall
          [] off = OFFSET.STUCK -> u.stuck]

\* C20: each of the six flags decodes to true exactly when its byte is 1
\* (0 and 2..255 decode to false), and is encoded as 1 when set and as 0
\* when not.
C20_FlagsAreOneOrZero ==
    /\ bench.step = "decoded" =>
          \A off \in DOMAIN FlagAt(bench.shown) :
              FlagAt(bench.shown)[off] = (bench.image[off + 1] = 1)
    /\ bench.step = "encoded" =>
          \A off \in DOMAIN FlagAt(bench.record) :
              bench.newBytes[off + 1] =
                  (IF FlagAt(bench.record)[off] THEN 1 ELSE 0)
    /\ bench.step = "decodedEncoded" =>
          \A off \in DOMAIN FlagAt(bench.shown) :
              bench.newBytes[off + 1] =
                  (IF FlagAt(bench.shown)[off] THEN 1 ELSE 0)

\* an image whose flag bytes hold a value other than 0 and 1 has been
\* decoded, and every flag is shown as not set
C20_Witness ==
    /\ bench.step = "decoded"
    /\ \A off \in DOMAIN FlagAt(bench.shown) :
          /\ bench.image[off + 1] > 1
          /\ ~FlagAt(bench.shown)[off]

\* C21: a save requested while the page is connected and holds no image is
\* not skipped: it encodes the inputs onto the synthesized default image
\* (176 bytes, all 0 but the bytes of compensated PWM, stall protection and
\* anti-stuck protection, which are 1).
C21_SaveWithoutImageUsesDefault ==
    [][\A t \in Tasks :
          (/\ clicks' = clicks + 1
           /\ tk'[t] # tk[t]
           /\ tk'[t].kind = "save"
           /\ connected
           /\ originalSettings = null) =>
              /\ tk'[t].outcome # "ignored"
              /\ tk'[t].newBytes = EncodeSettings(DefaultImage, ui')]_vars

\* C22: a load or a save that ends because writer.write or reader.read
\* threw leaves the page disconnected.
C22_IoErrorEndsSession ==
    [][\A t \in Tasks :
          (tk[t].pc # "done" /\ tk'[t].pc = "done" /\ tk'[t].how = "thrown") =>
              ~connected']_vars

RECURSIVE LsbFirstCrc(_, _, _, _)
\* the checksum after message bits i..j-1 are consumed, entered with
\* checksum c: bit i is bit (i mod 8) of byte (i div 8), so each byte goes
\* least significant bit first; a consumed bit that differs from bit 0 of
\* the checksum shifts the checksum right and XORs it with 0xA001, any
\* other bit only shifts it right
LsbFirstCrc(data, i, j, c) ==
    IF c < 0 \/ i >= j THEN c
    ELSE IF j = i + 1
         THEN LET bit == (data[(i \div 8) + 1] \div (2 ^ (i % 8))) % 2
              IN  IF bit # c % 2 THEN Xor(c \div 2, 40961) ELSE c \div 2
    ELSE LsbFirstCrc(data, (i + j) \div 2, j,
                     LsbFirstCrc(data, i, (i + j) \div 2, c))

RECURSIVE XmodemCrc(_, _, _, _)
\* CRC-16/XMODEM over message bits i..j-1 with the checksum kept at 16
\* bits: before the first bit of each byte the byte is XORed into the high
\* half; each step shifts left within 16 bits and XORs 0x1021 if the bit
\* shifted out was set
XmodemCrc(data, i, j, c) ==
    IF c < 0 \/ i >= j THEN c
    ELSE IF j = i + 1
         THEN LET d == IF i % 8 = 0 THEN Xor(c, 256 * data[(i \div 8) + 1])
                       ELSE c
                  s == (2 * d) % 65536
              IN  IF d >= 32768 THEN Xor(s, 4129) ELSE s
    ELSE XmodemCrc(data, (i + j) \div 2, j,
                   XmodemCrc(data, i, (i + j) \div 2, c))

\* C24: crc16 of sendCommand's protocol, which masks to 16 bits only on
\* return, equals CRC-16/XMODEM computed at 16 bits for every byte
\* sequence, and lies in 0..65535.
C24_Crc16IsXmodem ==
    bench.step = "crc16Xmodem" =>
        /\ bench.crc = XmodemCrc(bench.data, 0, 8 * Len(bench.data), 0)
        /\ bench.crc \in 0..65535

\* the checksum of "123456789" is 0x31C3, the published check value of
\* CRC-16/XMODEM
C24_Witness ==
    /\ bench.step = "crc16Xmodem"
    /\ bench.data = <<49, 50, 51, 52, 53, 54, 55, 56, 57>>
    /\ bench.crc = 12739

\* C25: sendCommand writes [0x2F, cmd, addr high, addr low, len(params),
\* params..., crc high, crc low] with crc over all the bytes before it but
\* the 0x2F; sendPacket writes [cmd, params..., crc low, crc high] with crc
\* over [cmd, params...]; every byte written is in 0..255.  (Commands and
\* parameters are bytes and a list has at most 255 of them.)
C25_PacketLayout ==
    LET p == bench.packet
        n == Len(bench.params)
    IN  /\ bench.step = "sendCommand" =>
              LET crc == XmodemCrc(SubSeq(p, 2, n + 5), 0, 8 * (n + 4), 0)
              IN  /\ Len(p) = n + 7
                  /\ p[1] = 47
                  /\ p[2] = bench.cmd
                  /\ 256 * p[3] + p[4] = bench.addr % 65536
                  /\ p[5] = n
                  /\ SubSeq(p, 6, n + 5) = bench.params
                  /\ p[n + 6] = crc \div 256
                  /\ p[n + 7] = crc % 256
                  /\ \A k \in 1..Len(p) : p[k] \in 0..255
        /\ bench.step = "sendPacket" =>
              LET crc == LsbFirstCrc(SubSeq(p, 1, n + 1), 0, 8 * (n + 1), 0)
              IN  /\ Len(p) = n + 3
                  /\ p[1] = bench.cmd
                  /\ SubSeq(p, 2, n + 1) = bench.params
                  /\ p[n + 2] = crc % 256
                  /\ p[n + 3] = crc \div 256
                  /\ \A k \in 1..Len(p) : p[k] \in 0..255

\* both builders have been applied to a 32-byte chunk of an image, and
\* sendCommand to an address whose two bytes differ
C25_Witness ==
    /\ bench.step \in {"sendCommand", "sendPacket"}
    /\ Len(bench.params) = chunkSize
    /\ bench.step = "sendCommand" => bench.addr = BaseAddr + totalSize - 1

\* the number of entries of the given sites among the first n of a log
RECURSIVE CountSites(_, _, _)
CountSites(log, n, sites) ==
    IF n = 0 THEN 0
    ELSE CountSites(log, n - 1, sites)
             + (IF log[n].site \in sites THEN 1 ELSE 0)

\* a transfer's own commands: the k-th set-address carries
\* [0x00, high, low] of 0x2000 + 32 * (k - 1), at most six are sent, and
\* every read or write command directly follows the set-address of its chunk
OwnSetAddressFirst(log) ==
    \A k \in 1..Len(log) :
        LET off == chunkSize * CountSites(log, k - 1, {"setaddr"})
            chunk == chunkSize * CountSites(log, k - 1, {"read", "write"})
        IN  /\ log[k].site = "setaddr" =>
                /\ off < totalSize
                /\ SubSeq(log[k].pkt, 2, 4)
                     = <<0, (8192 + off) \div 256, (8192 + off) % 256>>
            /\ log[k].site \in {"read", "write"} =>
                /\ k > 1
                /\ log[k - 1].site = "setaddr"
                /\ off = chunk + chunkSize

\* C26: in the chunked scripts each read or write command of a transfer is
\* preceded, and immediately preceded, by the set-address command of its
\* chunk carrying [0x00, high, low] of 0x2000 + offset, and the chunks go in
\* strictly increasing address order from offset 0 to 160.
C26_SetAddressImmediatelyBefore ==
    \A t \in Tasks : variant # "p1" => OwnSetAddressFirst(tk[t].sent)

\* a save has written all six chunks
C26_Witness ==
    \E t \in Tasks :
        /\ variant # "p1"
        /\ tk[t].kind = "save"
        /\ CountSites(tk[t].sent, Len(tk[t].sent), {"write"}) = 6

\* C27: during a chunked read, and in the image it stores, the byte at image
\* index j is the byte the device holds at address 0x2000 + j, also after a
\* response that was shorter than expected or late.
C27_PayloadAtChunkOffset ==
    \A t \in Tasks :
        (variant # "p1" /\ tk[t].kind = "connect") =>
            \A j \in 1..Min(Len(tk[t].fullData), totalSize) :
                tk[t].fullData[j] = mem[j]

\* C28: in the script that expects an echo (script.js), the chunk taken from
\* a read response starts right after as many bytes as the read packet
\* written had, and is the next bytes up to the count that packet requested.
C28_EchoStrippedByPacketLength ==
    [][\A t \in Tasks :
          (/\ variant = "v2"
           /\ tk[t].kind = "connect"
           /\ tk'[t].kind = "connect"
           /\ Len(tk'[t].fullData) > Len(tk[t].fullData)) =>
              LET written == tk[t].packet
                  resp == tk'[t].taken
              IN  /\ tk[t].site = "read"
                  /\ tk'[t].fullData =
                        tk[t].fullData
                          \o SubSeq(resp, Len(written) + 1,
                                    Min(Len(written) + written[2], Len(resp)))]_vars

\* the load of script.js has taken the chunks of two read responses
C28_Witness ==
    \E t \in Tasks :
        /\ variant = "v2"
        /\ tk[t].kind = "connect"
        /\ Len(tk[t].fullData) = 2 * chunkSize

\* C29: where the payload lies in a read response is fixed by the shape the
\* script expects (after the four echoed bytes in script.js, after the
\* status byte in part_000) and does not depend on the values of the bytes.
C29_PayloadPositionIsFixed ==
    [][\A t \in Tasks :
          (/\ variant # "p1"
           /\ tk[t].kind = "connect"
           /\ tk'[t].kind = "connect"
           /\ Len(tk'[t].fullData) > Len(tk[t].fullData)) =>
              LET resp == tk'[t].taken
                  first == IF variant = "v2" THEN 4 ELSE 1
              IN  tk'[t].fullData =
                      tk[t].fullData \o Slice(resp, first, first + chunkSize)]_vars

\* C30: the write commands of a chunked save carry, in this order, the
\* slices [0,32), [32,64), [64,96), [96,128), [128,160) and [160,176) of the
\* encoded image, so the last one has 16 bytes, and together they write the
\* addresses 0x2000..0x20AF and no other.
C30_WritesPartitionTheRegion ==
    \A t \in Tasks :
        (variant # "p1" /\ tk[t].kind = "save") =>
            \A k \in 1..Len(tk[t].sent) :
                tk[t].sent[k].site = "write" =>
                    LET lo == chunkSize
                                * CountSites(tk[t].sent, k - 1, {"write"})
                        hi == Min(lo + chunkSize, 176)
                        params == SubSeq(tk[t].sent[k].pkt, 2,
                                         Len(tk[t].sent[k].pkt) - 2)
                    IN  /\ lo < 176
                        /\ params = Slice(tk[t].newBytes, lo, hi)
                        /\ 8192 + lo + Len(params) - 1 <= 8367

\* C31: what sendPacket returns depends on the bytes the device sent and not
\* on how they were divided among the read() results: the same response
\* delivered whole and delivered in two parts gives the same outcome.
C31_OutcomeIgnoresBoundaries ==
    bench.step = "both" => bench.split = bench.whole

\* the bytes the device sent in answer to a logged packet
AnswerTo(e) ==
    Response(variant, e.shape, e.site, e.pkt,
             IF e.site = "read" THEN DevRead(mem, e.addr, e.pkt[2]) ELSE <<>>)

\* C32: the buffer a sendPacket call returns holds only bytes the device
\* sent in answer to the packet of that call: it is a leading part of that
\* answer, with no byte left over from the answer to an earlier command.
C32_BufferHoldsOwnResponseOnly ==
    [][\A t \in Tasks :
          (/\ tk[t].pc = "read"
           /\ tk'[t].pc \notin {"read", "cancelled", "failed"}
           /\ tk[t].sent # <<>>
           /\ tk'[t].how \in {"loop", "timeout"}
           /\ tk'[t].res # null) =>
              LET own == AnswerTo(tk[t].sent[Len(tk[t].sent)])
              IN  /\ Len(tk'[t].res) <= Len(own)
                  /\ tk'[t].res = SubSeq(own, 1, Len(tk'[t].res))]_vars

\* C33: a save that ends in failure leaves originalSettings as it was when
\* handleSave was called, null included.
C33_FailedSaveKeepsImage ==
    [][\A t \in Tasks :
          (/\ tk[t].pc # "done"
           /\ tk'[t].pc = "done"
           /\ tk'[t].kind = "save"
           /\ tk'[t].outcome = "writeFailed") =>
              originalSettings' = tk'[t].atCall]_vars

\* C34: a click on Save while the page is not connected, or in the chunked
\* scripts while no image is held, has no effect: the handler ends at once,
\* no packet is written, and connected and originalSettings stay as they are.
C34_GuardedSaveHasNoEffect ==
    [][\A t \in Tasks :
          (/\ clicks' = clicks + 1
           /\ tk'[t] # tk[t]
           /\ tk'[t].kind = "save"
           /\ (~connected \/ (variant # "p1" /\ originalSettings = null))) =>
              /\ tk'[t].pc = "done"
              /\ tk'[t].sent = <<>>
              /\ \A u \in Tasks \ {t} : tk'[u] = tk[u]
              /\ devq' = devq /\ rxq' = rxq /\ mem' = mem /\ devAddr' = devAddr
              /\ connected' = connected
              /\ originalSettings' = originalSettings]_vars

\* Save was clicked on a connected page of a chunked script that holds no
\* image, and the handler has ended
C34_Witness ==
    \E t \in Tasks :
        /\ variant # "p1"
        /\ tk[t].kind = "save"
        /\ tk[t].outcome = "ignored"
        /\ connected
        /\ originalSettings = null

\* C35: when disconnectSerial has ended, by reaching its end or by an error
\* raised while cancelling the reader or closing the writer or the port,
\* connected is false.
C35_DisconnectAlwaysClearsFlag ==
    bench.step \in {"end", "thrown"} => ~bench.connected

\* a handleConnection call is between its click and its end
Attempting(t) == tk[t].kind = "connect" /\ tk[t].pc \notin {"idle", "done"}

\* a handleConnection call is past port.open(), in its load
Loading(t) == Attempting(t) /\ tk[t].pc # "port"

\* no other handleConnection call is between its click and its end when a
\* call has opened the port
OpensAlone ==
    [][\A t \in Tasks :
          (tk[t].pc = "port" /\ tk'[t].pc # "port" /\ portOpen') =>
              \A u \in Tasks \ {t} : ~Attempting(u)]_vars

\* once connected is false, a step of a load that is still running stores
\* no image, and connected stays false while such a load runs
LoadStopsAtDisconnect ==
    [][\A t \in Tasks :
          (~connected /\ Loading(t)) =>
              /\ tk'[t] # tk[t] => originalSettings' = originalSettings
              /\ ~connected']_vars

\* C36: at most one handleConnection call is in progress at a time, a port
\* is opened only when no other call is in progress, and after a disconnect
\* a load that is still running neither sets connected to true again nor
\* stores an image.
C36_OneConnectionAtATime ==
    /\ [](Cardinality({t \in Tasks : Attempting(t)}) <= 1)
    /\ OpensAlone
    /\ LoadStopsAtDisconnect

====
